---- MODULE Spec2Model ----
(***************************************************************************)
(* The autonomous goal loop of the agent (autonomous_controller.run_goal), *)
(* with the planner, the action executor and the loop detection it calls.  *)
(* One goal run is a sequential loop that suspends at its I/O boundaries   *)
(* (page observation, the goal-complete query, the decision service, each  *)
(* dispatch attempt); pc is the position of the run between them.          *)
(***************************************************************************)
EXTENDS Integers, Sequences, FiniteSets, TLC

(* ------------------------------ bounds --------------------------------- *)

\* largest step budget (max_steps) a run is started with
MaxStepsBound == 3
\* largest loop-detection window K and repetition threshold M a run is configured with
MaxWindow == 3
\* how many times the rule engine is evaluated on one input
MaxEvals == 2
\* the step budget of each of the concurrent runs
ConcSteps == 3
\* how many messages are sent from one mounted chat page
MaxMessages == 2
\* how many health checks of the telemetry panel are in flight at once
MaxInflight == 2
\* how many times the children of the error boundary are mounted
MaxMounts == 2
\* the largest maxRetries passed to retryWithBackoff
MaxRetriesBound == 3
\* the longest history handed to the loop check on its own
MaxHist == 4
\* the longest timeout passed to fetchWithTimeout, in ticks of the clock
MaxTimeout == 3

(* --------------------------- program constants ------------------------- *)

\* action_executor.py: attempts per action
CLICK_RETRY_ATTEMPTS == 2

(* ------------------------------ data ----------------------------------- *)

None == "none"

\* ActionDecision.action: click, type, scroll, wait, navigate, finish
ActionKinds == {"click", "type", "scroll", "wait", "navigate", "finish"}

\* the pages of the document: about:blank and two loaded pages
Urls == {"blank", "p1", "p2"}

Goals == {"search", "other"}

\* page_analyzer.analyze_page(): the PageState of the page the document shows.
\* p1 is a page with a search box, p2 a page with a button; text is what was typed.
analyze_page(d) ==
    [url     |-> d.url,
     inputs  |-> IF d.url = "p1" THEN {"in"} ELSE {},
     buttons |-> IF d.url = "p2" THEN {"btn"} ELSE {},
     text    |-> d.text]

NoObservation == [url |-> None, inputs |-> {}, buttons |-> {}, text |-> None]

Decision(k, l, t, c) == [action |-> k, target_selector |-> l, input_text |-> t, confidence |-> c]

NoDecision == Decision(None, None, None, 0)

\* confidence is kept in tenths: [0,1] is 0..10
ConfMin == 0
ConfMax == 10

(* ---------------------------- HybridPlanner ---------------------------- *)

\* the goal asks for a search ("find", "search", "look up")
search_intent(g) == g = "search"

\* the label of a button overlaps the goal's keywords
label_matches(g, b) == g = "search" /\ b = "btn"

\* mutant: the search-input rule is tried before the blank-location rule, and the
\* label rule before both
try_deterministic_decision_reordered(g, obs) ==
    IF \E b \in obs.buttons : label_matches(g, b)
      THEN Decision("click", CHOOSE b \in obs.buttons : label_matches(g, b), None, ConfMax)
    ELSE IF obs.inputs # {} /\ obs.text # "q"
      THEN Decision("type", CHOOSE i \in obs.inputs : TRUE, "q", ConfMax)
    ELSE IF obs.url = "blank" /\ search_intent(g)
      THEN Decision("navigate", None, "search-engine", ConfMax)
    ELSE NoDecision

\* _try_deterministic_decision: the rules in declaration order, first match wins;
\* NoDecision when no rule matches.
try_deterministic_decision(g, obs) ==
    IF obs.url = "blank" /\ search_intent(g)
      THEN Decision("navigate", None, "search-engine", ConfMax)
    ELSE IF obs.inputs # {} /\ obs.text # "q"
      THEN Decision("type", CHOOSE i \in obs.inputs : TRUE, "q", ConfMax)
    ELSE IF \E b \in obs.buttons : label_matches(g, b)
      THEN Decision("click", CHOOSE b \in obs.buttons : label_matches(g, b), None, ConfMax)
    ELSE NoDecision

\* _safe_fallback_decision: scroll down by the smallest unit
safe_fallback_decision == Decision("scroll", None, None, ConfMin)

\* _is_valid_decision: the action is a supported one
is_valid_decision(d) == d.action \in ActionKinds

\* mutant: the fields a click or a type needs are not asked for
has_required_fields_unchecked(d) == TRUE

\* the fields the action needs are there: a selector for click and type, a text for type
has_required_fields(d) ==
    /\ d.action \in {"click", "type"} => d.target_selector # None
    /\ d.action = "type" => d.input_text # None

\* mutant: the selector is not checked against the page state
is_selector_unchecked(d, obs) == TRUE

\* _is_selector_safe: the selector, when there is one, is an element of the page state
is_selector_safe(d, obs) ==
    d.target_selector = None \/ d.target_selector \in (obs.inputs \cup obs.buttons)

\* confidence outside [0,1] is clamped, not rejected
clamp(c) == IF c < ConfMin THEN ConfMin ELSE IF c > ConfMax THEN ConfMax ELSE c

\* _validate_and_build_decision: the validated decision, or the safe fallback
validate_and_build_decision(d, obs) ==
    IF is_valid_decision(d) /\ has_required_fields(d) /\ is_selector_safe(d, obs)
      THEN [d EXCEPT !.confidence = clamp(d.confidence)]
      ELSE safe_fallback_decision

\* what the decision service may answer: a DecisionError, or a structured reply
DecisionError == [error |-> TRUE, d |-> NoDecision]
Reply(d) == [error |-> FALSE, d |-> d]
ServiceReplies ==
    {DecisionError,
     Reply(Decision("hover", None, None, 5)),
     Reply(Decision("click", "btn", None, 5)),
     Reply(Decision("click", None, None, 5)),
     Reply(Decision("type", "in", "q", 5)),
     Reply(Decision("type", "in", None, 5)),
     Reply(Decision("scroll", None, None, 15)),
     Reply(Decision("wait", None, None, -5)),
     Reply(Decision("navigate", None, "url", 5)),
     Reply(Decision("finish", None, None, 10))}

\* mutant: the result of the rule engine is not looked at
rule_matched_never(g, obs) == FALSE

\* the rule engine returned a match
rule_matched(g, obs) == try_deterministic_decision(g, obs) # NoDecision

\* _llm_decision: the service's reply validated; a DecisionError becomes the fallback
llm_decision(r, obs) ==
    IF r.error THEN safe_fallback_decision ELSE validate_and_build_decision(r.d, obs)

\* replan_next_action: rules first, the decision service only when no rule matches
replan_next_action(g, obs, r) ==
    IF rule_matched(g, obs)
      THEN validate_and_build_decision(try_deterministic_decision(g, obs), obs)
      ELSE llm_decision(r, obs)

(* ------------------------------ LoopGuard ------------------------------ *)

\* the indices of the last k entries of history h
window_of(h, k) == {i \in 1..Len(h) : i > Len(h) - k}

\* two history entries decide the same (action, target_selector) pair
same_action(e, f) ==
    e.decision.action = f.decision.action /\ e.decision.target_selector = f.decision.target_selector

\* the URL did not change from entry i to entry j
same_url_stretch(h, i, j) == \A n \in i..j : h[n].url = h[i].url

\* mutant: the URL heuristic never fires
url_unchanged_never(h, obs, k) == FALSE

\* the URL has not changed across the last k steps
url_unchanged(h, obs, k) ==
    Len(h) >= k /\ \A i \in window_of(h, k) : h[i].url = obs.url

\* mutant: the repetition is reported one occurrence late
action_repeated_late(h, k, m) ==
    \E i \in window_of(h, k) :
        Cardinality({j \in window_of(h, k) :
            j >= i /\ same_action(h[i], h[j]) /\ same_url_stretch(h, i, j)}) > m

\* the same action occurs m times within the last k steps with no URL change in between
action_repeated(h, k, m) ==
    \E i \in window_of(h, k) :
        Cardinality({j \in window_of(h, k) :
            j >= i /\ same_action(h[i], h[j]) /\ same_url_stretch(h, i, j)}) >= m

\* mutant: only the URL heuristic is looked at
is_repetitive_loop_url_only(h, obs, k, m) == url_unchanged(h, obs, k)

\* _is_repetitive_loop(observation): either heuristic stops the run
is_repetitive_loop(h, obs, k, m) == url_unchanged(h, obs, k) \/ action_repeated(h, k, m)

(* ---------------------------- ActionExecutor --------------------------- *)

\* mutant: finish is routed to the page like the other actions
touches_page_always(k) == TRUE

\* finish marks the goal complete; every other action is routed to the page
touches_page(k) == k # "finish"

\* mutant: the retry bound is inclusive
may_retry_inclusive(n) == n <= CLICK_RETRY_ATTEMPTS

\* a failed attempt is followed by another while fewer than the allowed attempts were made
may_retry(n) == n < CLICK_RETRY_ATTEMPTS

\* how one dispatch attempt may end: done, over its timeout, or refused by the page
AttemptResults == {"ok", "timeout", "error"}

\* what the executor notes of an attempt: a timeout is a failed attempt like any other
attempt_status(r) == IF r = "ok" THEN "ok" ELSE "failed"

\* the pages a click or a navigation may lead to
Landings == {"p1", "p2"}

\* the page after a successful dispatch of decision d that lands on page u
page_after(d, doc0, u) ==
    IF d.action \in {"click", "navigate"}
      THEN [url |-> u, text |-> IF u = doc0.url THEN doc0.text ELSE ""]
    ELSE IF d.action = "type" /\ d.input_text # None
      THEN [doc0 EXCEPT !.text = d.input_text]
    ELSE doc0

(* --------------------------- the goal run ------------------------------ *)

VARIABLES
    goal,               \* the user's goal
    max_steps,          \* the step budget of the run
    window,             \* K: the loop-detection window
    threshold,          \* M: the repetition threshold
    page,               \* the live document: its URL and the text typed into it
    cstate,             \* Running, GoalComplete, LoopDetected, BudgetExhausted, Aborted
    raised,             \* run_goal raised an error to its caller
    pc,                 \* where the run is suspended
    step_num,           \* the loop variable of run_goal
    observation,        \* the PageState of this iteration
    decision,           \* the decision of this iteration
    attempt_log,        \* the dispatch attempts made for the decision, in order
    result,             \* the status of the execution result
    execution_history,  \* _execution_history
    failure_history,    \* _failure_history
    obsCalls,           \* calls of analyze_page
    completeCalls,      \* calls of _is_goal_complete
    llmCalls,           \* calls of the decision service
    statusCount,        \* status_callback notifications
    cancelRequested,    \* the external cancellation signal
    report              \* the final report

\* the state of one goal run
run_vars == <<goal, max_steps, window, threshold, page, cstate, raised, pc, step_num,
              observation, decision, attempt_log, result, execution_history,
              failure_history, obsCalls, completeCalls, llmCalls, statusCount,
              cancelRequested, report>>

\* the rule engine evaluated on its own: its two arguments and the results returned
VARIABLES
    re_goal,            \* the goal argument
    re_state,           \* the PageState argument
    re_results          \* the results of the evaluations made so far, in order

rule_vars == <<re_goal, re_state, re_results>>

\* several goal runs side by side: for each run its own controller and document
VARIABLES
    runs                \* run id -> the controller state and the document of that run

conc_vars == <<runs>>

\* the web page: Index with the ChatComposer, the TelemetryPanel, and the ErrorBoundary
\* around them
VARIABLES
    value,              \* ChatComposer: the text in the textarea
    isLoading,          \* Index: isLoading
    messages,           \* Index: the messages added since the page was mounted
    mode,               \* Index: the mode selected in the ModeSwitcher
    stepsTaken,         \* Index: stepsTaken
    lastAction,         \* Index: lastAction
    requests,           \* the POST requests issued through the API client
    health,             \* TelemetryPanel: health
    loading,            \* TelemetryPanel: loading
    tp_error,           \* TelemetryPanel: error
    inflight,           \* TelemetryPanel: the checkHealth calls that have not settled
    lastSettled,        \* TelemetryPanel: how the check that settled last ended
    boundary,           \* ErrorBoundary: this.state
    mounts              \* ErrorBoundary: how many times its children were mounted

chat_vars == <<value, isLoading, messages, mode, stepsTaken, lastAction, requests>>
tp_vars == <<health, loading, tp_error, inflight, lastSettled>>
eb_vars == <<boundary, mounts>>
ui_vars == <<chat_vars, tp_vars, eb_vars>>

\* one call of retryWithBackoff(fn, maxRetries, initialDelay)
VARIABLES
    maxRetries,         \* the argument maxRetries
    initialDelay,       \* the argument initialDelay, in ms
    attempt,            \* the loop variable
    lastError,          \* lastError
    retry_pc,           \* where the call is: "call", "sleep", "resolved", "rejected"
    fn_calls,           \* how each call of fn made so far ended, in order
    delays,             \* the delays slept so far, in order
    settled_with        \* what the returned promise resolved or rejected with

retry_vars == <<maxRetries, initialDelay, attempt, lastError, retry_pc, fn_calls,
                delays, settled_with>>

\* one call of fetchWithTimeout(url, options, timeout)
VARIABLES
    ft_url,             \* the argument url
    ft_timeout,         \* the argument timeout, in ticks
    ft_clock,           \* the time passed since the call
    ft_timer,           \* the timeout timer: "armed", "fired" or "cleared"
    ft_fetch,           \* what the promise of fetch() settled with, "pending" before
    ft_aborts,          \* the calls of controller.abort() made
    ft_settled          \* the settlements of the promise returned to the caller, in order

fetch_vars == <<ft_url, ft_timeout, ft_clock, ft_timer, ft_fetch, ft_aborts, ft_settled>>

vars == <<run_vars, rule_vars, conc_vars, ui_vars, retry_vars, fetch_vars>>

\* what a goal run never touches
aside == <<rule_vars, conc_vars, ui_vars, retry_vars, fetch_vars>>
\* what an evaluation of the rule engine on its own never touches
rule_aside == <<run_vars, conc_vars, ui_vars, retry_vars, fetch_vars>>
\* what the concurrent runs never touch
conc_aside == <<run_vars, rule_vars, ui_vars, retry_vars, fetch_vars>>
\* what the web page never touches
ui_aside == <<run_vars, rule_vars, conc_vars, retry_vars, fetch_vars>>
\* what a call of fetchWithTimeout never touches
fetch_aside == <<run_vars, rule_vars, conc_vars, ui_vars, retry_vars>>
\* what a call of retryWithBackoff never touches
retry_aside == <<run_vars, rule_vars, conc_vars, ui_vars, fetch_vars>>

config == <<goal, max_steps, window, threshold>>
counters == <<obsCalls, completeCalls, llmCalls, statusCount>>
ended == <<cstate, raised, report>>
histories == <<execution_history, failure_history>>
scratch == <<observation, decision, attempt_log, result>>

NoReport ==
    [completed |-> FALSE, steps_taken |-> 0, final_status |-> None, execution_history |-> <<>>]

\* mutant: the report counts one more than the executed steps, whatever the reason
steps_reported_one_more(reason, s) == s + 1

\* mutant: the report counts the executed steps only
steps_reported_entries(reason, s) == s

\* the steps a report counts: the iterations begun when the run completed or was
\* stopped by loop detection, the iterations completed otherwise
steps_reported(reason, s) ==
    IF reason \in {"GoalComplete", "LoopDetected"} THEN s + 1 ELSE s

\* the final report of a run that ends for the given reason
build_report(reason, s, h) ==
    [completed |-> reason = "GoalComplete",
     steps_taken |-> steps_reported(reason, s),
     final_status |-> reason,
     execution_history |-> h]

\* mutant: the loop runs two iterations too long
loop_continues_late(s, max) == s <= max + 1

\* mutant: the loop bound is inclusive
loop_continues_inclusive(s, max) == s <= max

\* for step_num in range(max_steps)
loop_continues(s, max) == s < max

\* mutant: the loop-detected report is built without returning it
pc_after_missing_return(reason) == IF reason = "LoopDetected" THEN "plan" ELSE "done"

\* mutant: the report of a completed goal is built without returning it
pc_after_complete_falls_through(reason) == IF reason = "GoalComplete" THEN "guard" ELSE "done"

\* where the run stands after it returned a report: run_goal is over
pc_after_return(reason) == "done"

\* mutant: the signal is also acted on while a dispatch attempt is in progress
cancel_checkpoint_anywhere(p) == p \in {"top", "attempt"}

\* the cancellation signal is looked at between two steps only
cancel_checkpoint(p) == p = "top"

\* mutant: the error of every failed observation reaches the caller
observation_error_always_raises(n) == TRUE

\* the error of a failed observation reaches the caller only on the first observation
observation_error_raises(n) == n = 0

\* the state run_goal starts in, whatever its configuration
Start ==
    /\ goal \in Goals
    /\ page \in {[url |-> "blank", text |-> ""], [url |-> "p1", text |-> ""]}
    /\ cstate = "Running"
    /\ raised = FALSE
    /\ pc = "top"
    /\ step_num = 0
    /\ observation = NoObservation
    /\ decision = NoDecision
    /\ attempt_log = <<>>
    /\ result = None
    /\ execution_history = <<>>
    /\ failure_history = <<>>
    /\ obsCalls = 0
    /\ completeCalls = 0
    /\ llmCalls = 0
    /\ statusCount = 0
    /\ cancelRequested = FALSE
    /\ report = NoReport

\* the rule engine on its own is not in use
RuleIdle == re_goal = "other" /\ re_state = NoObservation /\ re_results = <<>>

\* the ids of the concurrent runs
Runs == {"r1", "r2"}

\* a controller constructed for one goal invocation, with its document handle
FreshRun(u) ==
    [cstate |-> "Running", step_num |-> 0, pending |-> NoDecision, doc |-> u,
     execution_history |-> <<>>, failure_history |-> <<>>]

\* no concurrent runs are in progress
ConcIdle == runs = [r \in Runs |-> FreshRun("blank")]

\* JavaScript's null and undefined
Null == "null"
Undefined == "undefined"

\* Index: the state of a freshly mounted page (useState initial values)
ChatMounted ==
    /\ value = "" /\ isLoading = FALSE /\ messages = <<>> /\ mode = "chat"
    /\ stepsTaken = 0 /\ lastAction = "None"

\* TelemetryPanel: health is null (health?.status is undefined, health?.llm_available
\* ?? false is false)
HealthNull == [status |-> Undefined, llm_available |-> FALSE]

\* TelemetryPanel: the useState initial values
TelemetryFresh ==
    /\ health = HealthNull /\ loading = FALSE /\ tp_error = Null /\ inflight = 0
    /\ lastSettled = "none"

\* ErrorBoundary: the state set by the constructor
BoundaryFresh == [hasError |-> FALSE, error |-> Null, errorInfo |-> Null]

\* the web page is not open
UiIdle ==
    /\ ChatMounted /\ requests = <<>> /\ TelemetryFresh
    /\ boundary = BoundaryFresh /\ mounts = 0

\* retryWithBackoff has not been called
RetryIdle ==
    /\ maxRetries = 0 /\ initialDelay = 0 /\ attempt = 0 /\ lastError = Undefined
    /\ retry_pc = "idle" /\ fn_calls = <<>> /\ delays = <<>> /\ settled_with = Undefined

\* fetchWithTimeout has not been called
FetchIdle ==
    /\ ft_url = "" /\ ft_timeout = 0 /\ ft_clock = 0 /\ ft_timer = "idle"
    /\ ft_fetch = [kind |-> "idle"] /\ ft_aborts = 0 /\ ft_settled = <<>>

\* everything outside the goal run is not in use
AsideIdle == RuleIdle /\ ConcIdle /\ UiIdle /\ RetryIdle /\ FetchIdle

Init ==
    /\ max_steps \in 1..MaxStepsBound
    /\ window \in 2..MaxWindow
    /\ threshold \in 2..MaxWindow
    /\ Start
    /\ AsideIdle

\* a run configured as in the failure scenario: room for one step more than the widest
\* window, and the widest window and threshold, so that several consecutive failures
\* fit before loop detection
InitLong ==
    /\ max_steps = MaxStepsBound + 1
    /\ window = MaxWindow
    /\ threshold = MaxWindow
    /\ Start
    /\ AsideIdle

\* return <reason>_report: the controller state and the report are set
return_report(reason) ==
    /\ cstate' = reason
    /\ raised' = raised
    /\ pc' = pc_after_return(reason)
    /\ report' = build_report(reason, step_num, execution_history)

\* an external cancellation signal arrives, at any moment of a running run
CancelSignal ==
    /\ pc # "done"
    /\ ~cancelRequested
    /\ cancelRequested' = TRUE
    /\ UNCHANGED <<aside, config, page, ended, pc, step_num, scratch, histories, counters>>

\* the cancellation signal is seen at a check point: the run is aborted
AbortOnCancel ==
    /\ cancel_checkpoint(pc)
    /\ pc = "top" => loop_continues(step_num, max_steps)
    /\ cancelRequested
    /\ return_report("Aborted")
    /\ UNCHANGED <<aside, config, page, step_num, scratch, histories, counters, cancelRequested>>

\* the loop is exhausted: return max_steps_reached_report
BudgetExhaust ==
    /\ pc = "top"
    /\ ~loop_continues(step_num, max_steps)
    /\ return_report("BudgetExhausted")
    /\ UNCHANGED <<aside, config, page, step_num, scratch, histories, counters, cancelRequested>>

\* 1. OBSERVE: analyze_page() returns the page state
Observe ==
    /\ pc = "top"
    /\ loop_continues(step_num, max_steps)
    /\ ~cancelRequested
    /\ obsCalls' = obsCalls + 1
    /\ observation' = analyze_page(page)
    /\ pc' = "check"
    /\ UNCHANGED <<aside, config, page, ended, step_num, decision, attempt_log, result,
                   histories, completeCalls, llmCalls, statusCount, cancelRequested>>

\* 1. OBSERVE fails: the document is unusable
ObserveFail ==
    /\ pc = "top"
    /\ loop_continues(step_num, max_steps)
    /\ ~cancelRequested
    /\ obsCalls' = obsCalls + 1
    /\ IF observation_error_raises(obsCalls)
         THEN raised' = TRUE /\ pc' = "done" /\ UNCHANGED <<cstate, report>>
         ELSE return_report("Aborted")
    /\ UNCHANGED <<aside, config, page, step_num, scratch, histories,
                   completeCalls, llmCalls, statusCount, cancelRequested>>

\* 2. CHECK COMPLETION: _is_goal_complete(goal, observation) answers b
CheckComplete ==
    /\ pc = "check"
    /\ completeCalls' = completeCalls + 1
    /\ \E b \in BOOLEAN :
         IF b THEN return_report("GoalComplete")
              ELSE pc' = "guard" /\ UNCHANGED ended
    /\ UNCHANGED <<aside, config, page, step_num, scratch, histories,
                   obsCalls, llmCalls, statusCount, cancelRequested>>

\* 3. DETECT LOOPS: _is_repetitive_loop(observation)
DetectLoop ==
    /\ pc = "guard"
    /\ IF is_repetitive_loop(execution_history, observation, window, threshold)
         THEN return_report("LoopDetected")
         ELSE pc' = "plan" /\ UNCHANGED ended
    /\ UNCHANGED <<aside, config, page, step_num, scratch, histories, counters, cancelRequested>>

\* 4. DECIDE: planner.replan_next_action(goal, page_state, history, failures)
Decide ==
    /\ pc = "plan"
    /\ \E r \in ServiceReplies :
         /\ decision' = replan_next_action(goal, observation, r)
         /\ llmCalls' = IF rule_matched(goal, observation) THEN llmCalls ELSE llmCalls + 1
    /\ pc' = "exec"
    /\ UNCHANGED <<aside, config, page, ended, step_num, observation, attempt_log, result,
                   histories, obsCalls, completeCalls, statusCount, cancelRequested>>

\* 5. ACT, finish: the goal is marked complete without a dispatch to the page
ExecuteFinish ==
    /\ pc = "exec"
    /\ ~touches_page(decision.action)
    /\ result' = "completed"
    /\ pc' = "record"
    /\ UNCHANGED <<aside, config, page, ended, step_num, observation, decision, attempt_log,
                   histories, counters, cancelRequested>>

\* 5. ACT: an attempt to dispatch the decision to the page starts
AttemptStart ==
    /\ pc = "exec"
    /\ touches_page(decision.action)
    /\ pc' = "attempt"
    /\ UNCHANGED <<aside, config, page, ended, step_num, scratch, histories, counters,
                   cancelRequested>>

\* 5. ACT: the attempt succeeds, fails or times out; a failed first attempt is retried
AttemptEnd ==
    /\ pc = "attempt"
    /\ \E r \in AttemptResults, u \in Landings :
         /\ attempt_log' = Append(attempt_log, attempt_status(r))
         /\ IF r = "ok"
              THEN /\ page' = page_after(decision, page, u)
                   /\ result' = "success"
                   /\ pc' = "record"
              ELSE /\ page' = page
                   /\ IF may_retry(Len(attempt_log) + 1)
                        THEN pc' = "exec" /\ result' = result
                        ELSE pc' = "record" /\ result' = "failed"
    /\ UNCHANGED <<aside, config, ended, step_num, observation, decision,
                   histories, counters, cancelRequested>>

HistoryEntry(s, d, r, u) == [step |-> s, decision |-> d, status |-> r, url |-> u]

FailureRecord(d) == [action |-> d.action, selector |-> d.target_selector]

\* mutant: the new entry is put in front of the history
appended_in_front(h, e) == <<e>> \o h

\* self._execution_history.append(entry)
appended(h, e) == Append(h, e)

\* mutant: every result but a success counts as a failure
is_failure_unless_success(r) == r # "success"

\* mutant: no result counts as a failure
is_failure_never(r) == FALSE

\* a result with this status is added to the failure history
is_failure(r) == r = "failed"

\* 6. RECORD: append to execution_history, and to failure_history when the result failed
Record ==
    /\ pc = "record"
    /\ execution_history' =
         appended(execution_history, HistoryEntry(step_num, decision, result, observation.url))
    /\ failure_history' =
         IF is_failure(result) THEN Append(failure_history, FailureRecord(decision))
                               ELSE failure_history
    /\ pc' = "status"
    /\ UNCHANGED <<aside, config, page, ended, step_num, scratch, counters, cancelRequested>>

\* mutant: the status callback is not invoked
not_notified(n) == n

\* status_callback(...) is invoked once
notified(n) == n + 1

\* 7. SEND STATUS UPDATE, 8. WAIT, 9. CONTINUE LOOP with the next step_num
SendStatus ==
    /\ pc = "status"
    /\ statusCount' = notified(statusCount)
    /\ step_num' = step_num + 1
    /\ attempt_log' = <<>>
    /\ decision' = NoDecision
    /\ result' = None
    /\ pc' = "top"
    /\ UNCHANGED <<aside, config, page, ended, observation, histories,
                   obsCalls, completeCalls, llmCalls, cancelRequested>>

Next ==
    \/ CancelSignal
    \/ AbortOnCancel
    \/ BudgetExhaust
    \/ Observe
    \/ ObserveFail
    \/ CheckComplete
    \/ DetectLoop
    \/ Decide
    \/ ExecuteFinish
    \/ AttemptStart
    \/ AttemptEnd
    \/ Record
    \/ SendStatus

Spec == Init /\ [][Next]_vars

\* the runs of the failure scenario
LongSpec == InitLong /\ [][Next]_vars

(* ----------------------- the rule engine on its own -------------------- *)

\* the PageStates the rule engine may be given
PageStates ==
    [url : Urls, inputs : SUBSET {"in"}, buttons : SUBSET {"btn", "nav"}, text : {"", "q"}]

\* no goal run is in progress: the run state stays at one fixed start state
RunIdle ==
    /\ max_steps = 1 /\ window = 2 /\ threshold = 2
    /\ Start
    /\ goal = "other" /\ page.url = "blank"

RuleInit ==
    /\ re_goal \in Goals
    /\ re_state \in PageStates
    /\ re_results = <<>>
    /\ RunIdle /\ ConcIdle /\ UiIdle /\ RetryIdle /\ FetchIdle

\* one call of _try_deterministic_decision(goal, page_state)
Evaluate ==
    /\ Len(re_results) < MaxEvals
    /\ re_results' = Append(re_results, try_deterministic_decision(re_goal, re_state))
    /\ UNCHANGED <<re_goal, re_state, rule_aside>>

RuleNext == Evaluate

RuleSpec == RuleInit /\ [][RuleNext]_vars

(* ------------------------ the loop check on its own --------------------- *)

\* the steps a history handed to the loop check is made of: the decision of the step
\* and the URL it was decided on
GuardSteps ==
    {Decision("click", "btn", None, 5), Decision("click", "in", None, 5),
     Decision("scroll", None, None, 5)} \X {"p1", "p2"}

\* a run that stands at the loop check of an iteration, with any history of at most
\* MaxHist steps behind it and the page just observed
GuardInit ==
    /\ goal = "other"
    /\ max_steps = MaxHist + 1
    /\ window \in 2..MaxWindow
    /\ threshold \in 2..MaxWindow
    /\ page \in {[url |-> "p1", text |-> ""], [url |-> "p2", text |-> ""]}
    /\ observation = analyze_page(page)
    /\ \E n \in 0..MaxHist : \E f \in [1..n -> GuardSteps] :
         /\ execution_history =
              [i \in 1..n |-> HistoryEntry(i - 1, f[i][1], "success", f[i][2])]
         /\ step_num = n
         /\ obsCalls = n + 1 /\ completeCalls = n + 1 /\ llmCalls = n /\ statusCount = n
    /\ failure_history = <<>>
    /\ cstate = "Running" /\ raised = FALSE /\ pc = "guard"
    /\ decision = NoDecision /\ attempt_log = <<>> /\ result = None
    /\ cancelRequested = FALSE
    /\ report = NoReport
    /\ AsideIdle

GuardNext == DetectLoop

GuardSpec == GuardInit /\ [][GuardNext]_vars

(* ------------------------ goal runs side by side ------------------------ *)

\* the decisions a concurrent run's planner may return
ConcDecisions == {safe_fallback_decision, Decision("navigate", None, "url", ConfMax)}

\* the loop-detection window and threshold of the concurrent runs
ConcWindow == 2

\* mutant: the histories live in one controller shared by all runs
history_holder_shared(r) == CHOOSE x \in Runs : TRUE

\* the run whose controller holds the histories that a step of run r appends to
history_holder(r) == r

ConcInit ==
    /\ runs \in [Runs -> {FreshRun(u) : u \in {"blank", "p1"}}]
    /\ RunIdle /\ RuleIdle /\ UiIdle /\ RetryIdle /\ FetchIdle

\* run r begins an iteration: budget, observation of its own document, goal-complete
\* check, loop check on its own history, decision
ConcPlan(r) ==
    LET me == runs[r]
        obs == analyze_page([url |-> me.doc, text |-> ""]) IN
    /\ me.cstate = "Running" /\ me.pending = NoDecision
    /\ IF ~loop_continues(me.step_num, ConcSteps)
         THEN runs' = [runs EXCEPT ![r].cstate = "BudgetExhausted"]
         ELSE \/ runs' = [runs EXCEPT ![r].cstate = "GoalComplete"]
              \/ /\ is_repetitive_loop(me.execution_history, obs, ConcWindow, ConcWindow)
                 /\ runs' = [runs EXCEPT ![r].cstate = "LoopDetected"]
              \/ /\ ~is_repetitive_loop(me.execution_history, obs, ConcWindow, ConcWindow)
                 /\ \E d \in ConcDecisions : runs' = [runs EXCEPT ![r].pending = d]
    /\ UNCHANGED conc_aside

\* run r executes its pending decision on its own document and records the step
ConcAct(r) ==
    LET me == runs[r]
        h == history_holder(r) IN
    /\ me.cstate = "Running" /\ me.pending # NoDecision
    /\ \E res \in {"success", "failed"} :
         LET moved == [runs EXCEPT
                         ![r].doc = IF res = "success" /\ me.pending.action = "navigate"
                                      THEN "p1" ELSE me.doc,
                         ![r].step_num = me.step_num + 1,
                         ![r].pending = NoDecision] IN
         runs' = [moved EXCEPT
                    ![h].execution_history =
                        Append(runs[h].execution_history,
                               HistoryEntry(me.step_num, me.pending, res, me.doc)),
                    ![h].failure_history =
                        IF is_failure(res)
                          THEN Append(runs[h].failure_history, FailureRecord(me.pending))
                          ELSE runs[h].failure_history]
    /\ UNCHANGED conc_aside

ConcNext == \E r \in Runs : ConcPlan(r) \/ ConcAct(r)

ConcSpec == ConcInit /\ [][ConcNext]_vars

(* ------------------------------ the web page ---------------------------- *)

\* what the user may have in the textarea
Texts == {"", " ", "hi", " hi "}

\* String.prototype.trim on those texts
trim(v) == CASE v = " " -> "" [] v = " hi " -> "hi" [] OTHER -> v

\* ModeSwitcher: the modes
Modes == {"chat", "controlled", "autonomous"}

UserMessage(content) == [role |-> "user", content |-> content]
AssistantMessage(reply) == [role |-> "assistant", content |-> reply]

\* `Responded in ${currentMode} mode`
responded_in(m) == <<"Responded in", m, "mode">>

\* JSON.stringify({message, session_id: sessionId}): an undefined field is left out
message_request(message, sessionId) ==
    IF sessionId = Undefined THEN [message |-> message]
                             ELSE [message |-> message, session_id |-> sessionId]

\* what GET /health may answer
HealthReplies ==
    {[status |-> "healthy", llm_available |-> TRUE],
     [status |-> "degraded", llm_available |-> FALSE]}

\* the errors a failed health check is rejected with
HealthErrors == {"Request timeout", "Failed to fetch"}

\* TelemetryPanel: the text of the status row
status_text(err, h) ==
    IF err # Null THEN "Offline"
    ELSE IF h.status # Undefined THEN h.status ELSE "Checking..."

\* the error a child component throws while rendering, and its component stack
ThrownError == "Error: test"
ComponentStack == "at ChatComposer"

\* mutant: Try Again leaves the error in the state
reset_state_keeps_error == [hasError |-> FALSE, error |-> ThrownError, errorInfo |-> Null]

\* ErrorBoundary.handleReset: the state it sets
reset_state == [hasError |-> FALSE, error |-> Null, errorInfo |-> Null]

\* ErrorBoundary.render
render(b) == IF b.hasError THEN "fallback" ELSE "children"

\* the children of the boundary (Index, ChatComposer, TelemetryPanel) are on the page
Mounted == render(boundary) = "children"

\* fetchHealthStatus up to its await: setLoading(true), setError(null), checkHealth()
FetchStarts ==
    /\ loading' = TRUE
    /\ tp_error' = Null
    /\ inflight' = inflight + 1
    /\ UNCHANGED <<health, lastSettled>>

\* the children are mounted: fresh state, and the effect of TelemetryPanel starts the
\* first health check
MountChildren ==
    /\ value' = "" /\ isLoading' = FALSE /\ messages' = <<>> /\ mode' = "chat"
    /\ stepsTaken' = 0 /\ lastAction' = "None"
    /\ health' = HealthNull /\ loading' = TRUE /\ tp_error' = Null /\ inflight' = 1
    /\ lastSettled' = "none"

\* the children are unmounted: their state is gone, the interval is cleared, and
\* checks still in flight settle without effect
UnmountChildren ==
    /\ value' = "" /\ isLoading' = FALSE /\ messages' = <<>> /\ mode' = "chat"
    /\ stepsTaken' = 0 /\ lastAction' = "None"
    /\ health' = HealthNull /\ loading' = FALSE /\ tp_error' = Null /\ inflight' = 0
    /\ lastSettled' = "none"

\* the page after its first render and the mount effects
UiInit ==
    /\ ChatMounted /\ requests = <<>>
    /\ health = HealthNull /\ loading = TRUE /\ tp_error = Null /\ inflight = 1
    /\ lastSettled = "none"
    /\ boundary = BoundaryFresh /\ mounts = 1
    /\ RunIdle /\ RuleIdle /\ ConcIdle /\ RetryIdle /\ FetchIdle

\* textarea onChange (the textarea is disabled while isLoading)
SetValue ==
    /\ Mounted /\ ~isLoading
    /\ \E v \in Texts \ {value} : value' = v
    /\ UNCHANGED <<isLoading, messages, mode, stepsTaken, lastAction, requests,
                   tp_vars, eb_vars, ui_aside>>

\* ModeSwitcher onChange = setMode
SetMode ==
    /\ Mounted
    /\ \E m \in Modes \ {mode} : mode' = m
    /\ UNCHANGED <<value, isLoading, messages, stepsTaken, lastAction, requests,
                   tp_vars, eb_vars, ui_aside>>

\* mutant: handleSend returns early on an empty input only
send_refused_when_empty(v, l) == trim(v) = ""

\* ChatComposer.handleSend: if (!value.trim() || isLoading) return
send_refused(v, l) == trim(v) = "" \/ l

\* ChatComposer.handleSend past its early return: onSend(value.trim()), which is
\* Index.handleSend(content, reply, currentMode) called with the content alone, then
\* setValue("")
HandleSend ==
    /\ Mounted
    /\ ~send_refused(value, isLoading)
    /\ stepsTaken < MaxMessages
    /\ messages' = messages \o <<UserMessage(trim(value)), AssistantMessage(Undefined)>>
    /\ stepsTaken' = stepsTaken + 1
    /\ lastAction' = responded_in(Undefined)
    /\ value' = ""
    /\ UNCHANGED <<isLoading, mode, requests, tp_vars, eb_vars, ui_aside>>

\* a call of the exported sendMessage(message, sessionId), up to its fetch: the POST
\* request is issued (no component of the page calls it)
SendMessageCall ==
    /\ Len(requests) < MaxMessages
    /\ \E m \in {"hi"}, sid \in {"sid", Undefined} :
         requests' = Append(requests, [method |-> "POST", path |-> "/agent/message",
                                       body |-> message_request(m, sid)])
    /\ UNCHANGED <<value, isLoading, messages, mode, stepsTaken, lastAction,
                   tp_vars, eb_vars, ui_aside>>

\* the 5 s interval fires fetchHealthStatus, whether or not a check is in flight
PollTick ==
    /\ Mounted
    /\ inflight < MaxInflight
    /\ FetchStarts
    /\ UNCHANGED <<chat_vars, eb_vars, ui_aside>>

\* the refresh button (disabled while loading) calls fetchHealthStatus
Refresh ==
    /\ Mounted /\ ~loading
    /\ inflight < MaxInflight
    /\ FetchStarts
    /\ UNCHANGED <<chat_vars, eb_vars, ui_aside>>

\* a checkHealth call resolves: setHealth(healthData), finally setLoading(false)
HealthOk ==
    /\ Mounted /\ inflight > 0
    /\ \E data \in HealthReplies : health' = data
    /\ loading' = FALSE
    /\ inflight' = inflight - 1
    /\ lastSettled' = "ok"
    /\ UNCHANGED <<tp_error, chat_vars, eb_vars, ui_aside>>

\* a checkHealth call rejects: setError(errorMsg), finally setLoading(false)
HealthFail ==
    /\ Mounted /\ inflight > 0
    /\ \E msg \in HealthErrors : tp_error' = msg
    /\ loading' = FALSE
    /\ inflight' = inflight - 1
    /\ lastSettled' = "failed"
    /\ UNCHANGED <<health, chat_vars, eb_vars, ui_aside>>

\* a child throws while rendering: getDerivedStateFromError, and the fallback replaces
\* the children
ChildThrows ==
    /\ ~boundary.hasError
    /\ mounts < MaxMounts
    /\ boundary' = [boundary EXCEPT !.hasError = TRUE]
    /\ UnmountChildren
    /\ UNCHANGED <<requests, mounts, ui_aside>>

\* componentDidCatch: setState({error, errorInfo})
ComponentDidCatch ==
    /\ boundary.hasError /\ boundary.error = Null
    /\ boundary' = [boundary EXCEPT !.error = ThrownError, !.errorInfo = ComponentStack]
    /\ UNCHANGED <<chat_vars, tp_vars, mounts, ui_aside>>

\* Try Again: handleReset, after which render returns the children again
HandleReset ==
    /\ boundary.hasError /\ boundary.error # Null
    /\ boundary' = reset_state
    /\ MountChildren
    /\ mounts' = mounts + 1
    /\ UNCHANGED <<requests, ui_aside>>

UiNext ==
    \/ SetValue \/ SetMode \/ HandleSend \/ SendMessageCall
    \/ PollTick \/ Refresh \/ HealthOk \/ HealthFail
    \/ ChildThrows \/ ComponentDidCatch \/ HandleReset

UiSpec == UiInit /\ [][UiNext]_vars

\* the page with the composer given either value of its isLoading prop and any text
ComposerInit ==
    /\ value \in Texts /\ isLoading \in BOOLEAN
    /\ messages = <<>> /\ mode = "chat" /\ stepsTaken = 0 /\ lastAction = "None"
    /\ requests = <<>>
    /\ health = HealthNull /\ loading = TRUE /\ tp_error = Null /\ inflight = 1
    /\ lastSettled = "none"
    /\ boundary = BoundaryFresh /\ mounts = 1
    /\ RunIdle /\ RuleIdle /\ ConcIdle /\ RetryIdle /\ FetchIdle

ComposerSpec == ComposerInit /\ [][UiNext]_vars

(* --------------------------- retryWithBackoff --------------------------- *)

\* what fn may resolve with, and the errors it may reject with
FnValues == {"v1", "v2"}
FnErrors == {"e1", "e2"}

\* the initial delays tried, in ms
InitialDelays == {1, 1000}

RECURSIVE pow(_, _)
\* Math.pow(b, n) for a natural n
pow(b, n) == IF n = 0 THEN 1 ELSE b * pow(b, n - 1)

\* mutant: the delay grows by initialDelay with every retry
backoff_delay_linear(d, a) == d * (a + 1)

\* the delay before the retry that follows attempt a: initialDelay * Math.pow(2, attempt)
backoff_delay(d, a) == d * pow(2, a)

\* the test of the for loop: attempt <= maxRetries
retry_loop_test(a, n) == a <= n

\* where the call is after attempt++ and the test of the loop: the next call of fn, or
\* past the loop at throw lastError
after_increment(a, n, err) ==
    IF retry_loop_test(a, n)
      THEN /\ retry_pc' = "call" /\ settled_with' = settled_with
      ELSE /\ retry_pc' = "rejected" /\ settled_with' = err

\* retryWithBackoff is called: attempt = 0 and the first test of the loop
RetryInit ==
    /\ maxRetries \in 0..MaxRetriesBound
    /\ initialDelay \in InitialDelays
    /\ attempt = 0 /\ lastError = Undefined
    /\ retry_pc = "call"
    /\ fn_calls = <<>> /\ delays = <<>> /\ settled_with = Undefined
    /\ RunIdle /\ RuleIdle /\ ConcIdle /\ UiIdle /\ FetchIdle

\* fn() resolves: return await fn()
FnResolves ==
    /\ retry_pc = "call"
    /\ \E v \in FnValues :
         /\ fn_calls' = Append(fn_calls, [ok |-> TRUE, with |-> v])
         /\ settled_with' = v
    /\ retry_pc' = "resolved"
    /\ UNCHANGED <<maxRetries, initialDelay, attempt, lastError, delays, retry_aside>>

\* fn() rejects: lastError = error; with retries left the sleep starts, otherwise
\* attempt++ and the test of the loop
FnRejects ==
    /\ retry_pc = "call"
    /\ \E e \in FnErrors :
         /\ fn_calls' = Append(fn_calls, [ok |-> FALSE, with |-> e])
         /\ lastError' = e
         /\ IF attempt < maxRetries
              THEN /\ retry_pc' = "sleep"
                   /\ UNCHANGED <<attempt, settled_with>>
              ELSE /\ attempt' = attempt + 1
                   /\ after_increment(attempt + 1, maxRetries, e)
    /\ UNCHANGED <<maxRetries, initialDelay, delays, retry_aside>>

\* the sleep of initialDelay * 2^attempt ms is over: attempt++ and the test of the loop
SleepEnds ==
    /\ retry_pc = "sleep"
    /\ delays' = Append(delays, backoff_delay(initialDelay, attempt))
    /\ attempt' = attempt + 1
    /\ after_increment(attempt + 1, maxRetries, lastError)
    /\ UNCHANGED <<maxRetries, initialDelay, lastError, fn_calls, retry_aside>>

RetryNext == FnResolves \/ FnRejects \/ SleepEnds

RetrySpec == RetryInit /\ [][RetryNext]_vars

(* --------------------------- fetchWithTimeout --------------------------- *)

\* the responses fetch() may resolve with (a response with an error status resolves
\* too), and the errors it may reject with by itself
Responses ==
    {[kind |-> "response", ok |-> TRUE, status |-> 200],
     [kind |-> "response", ok |-> FALSE, status |-> 404],
     [kind |-> "response", ok |-> FALSE, status |-> 500]}
Error(name, message) == [kind |-> "error", name |-> name, message |-> message]
FetchErrors == {Error("TypeError", "Failed to fetch")}

\* the fetch has not settled
Pending == [kind |-> "pending"]

\* the rejection of a fetch whose signal was aborted
AbortError == Error("AbortError", "The user aborted a request.")

\* mutant: the catch block rethrows every error as it is
caught_as_is(error) == error

\* the catch block: an AbortError is replaced by Error("Request timeout"), any other
\* error is rethrown as it is
caught(error) ==
    IF error.name = "AbortError" THEN Error("Error", "Request timeout") ELSE error

\* mutant: the timer is left as it is
clearTimeout_forgotten(t) == t

\* clearTimeout(timeoutId): a timer not yet fired will not fire
clearTimeout(t) == IF t = "armed" THEN "cleared" ELSE t

\* fetchWithTimeout is called: the timer is set and fetch() is started
FetchInit ==
    /\ ft_url \in {"/health", "/agent/message"}
    /\ ft_timeout \in 1..MaxTimeout
    /\ ft_clock = 0
    /\ ft_timer = "armed"
    /\ ft_fetch = Pending
    /\ ft_aborts = 0
    /\ ft_settled = <<>>
    /\ RunIdle /\ RuleIdle /\ ConcIdle /\ UiIdle /\ RetryIdle

\* time passes; an armed timer fires no later than at its timeout
Tick ==
    /\ ft_clock <= ft_timeout
    /\ ~(ft_timer = "armed" /\ ft_clock = ft_timeout)
    /\ ft_clock' = ft_clock + 1
    /\ UNCHANGED <<ft_url, ft_timeout, ft_timer, ft_fetch, ft_aborts, ft_settled, fetch_aside>>

\* the timer fires: controller.abort(); a fetch still pending rejects with an AbortError,
\* which the catch block handles
TimerFires ==
    /\ ft_timer = "armed" /\ ft_clock = ft_timeout
    /\ ft_aborts' = ft_aborts + 1
    /\ IF ft_fetch = Pending
         THEN /\ ft_fetch' = AbortError
              /\ ft_timer' = clearTimeout("fired")
              /\ ft_settled' = Append(ft_settled, [ok |-> FALSE, with |-> caught(AbortError)])
         ELSE /\ ft_timer' = "fired"
              /\ UNCHANGED <<ft_fetch, ft_settled>>
    /\ UNCHANGED <<ft_url, ft_timeout, ft_clock, fetch_aside>>

\* fetch() resolves: clearTimeout(timeoutId); return response
FetchResponds ==
    /\ ft_fetch = Pending
    /\ \E response \in Responses :
         /\ ft_fetch' = response
         /\ ft_settled' = Append(ft_settled, [ok |-> TRUE, with |-> response])
    /\ ft_timer' = clearTimeout(ft_timer)
    /\ UNCHANGED <<ft_url, ft_timeout, ft_clock, ft_aborts, fetch_aside>>

\* fetch() rejects by itself: clearTimeout(timeoutId); the error is rethrown
FetchFails ==
    /\ ft_fetch = Pending
    /\ \E error \in FetchErrors :
         /\ ft_fetch' = error
         /\ ft_settled' = Append(ft_settled, [ok |-> FALSE, with |-> caught(error)])
    /\ ft_timer' = clearTimeout(ft_timer)
    /\ UNCHANGED <<ft_url, ft_timeout, ft_clock, ft_aborts, fetch_aside>>

FetchNext == Tick \/ TimerFires \/ FetchResponds \/ FetchFails

FetchSpec == FetchInit /\ [][FetchNext]_vars

(* ------------------------- properties of a run ------------------------- *)

Terminal == {"GoalComplete", "LoopDetected", "BudgetExhausted", "Aborted"}

\* the position of the run inside one iteration, counted down to the end of the iteration
pc_rank ==
    CASE pc = "top"     -> 11
      [] pc = "check"   -> 10
      [] pc = "guard"   -> 9
      [] pc = "plan"    -> 8
      [] pc = "exec"    -> 7 - 2 * Len(attempt_log)
      [] pc = "attempt" -> 6 - 2 * Len(attempt_log)
      [] pc = "record"  -> 2
      [] pc = "status"  -> 1
      [] OTHER          -> 0

\* a measure of the work a run has left: the iterations left, the position in the
\* iteration, and the cancellation signal still to come
work_left ==
    IF pc = "done" THEN 0
    ELSE (max_steps - step_num) * 12 + pc_rank + (IF cancelRequested THEN 0 ELSE 1)

\* C1: a run of run_goal terminates, and makes at most max_steps + 1 observation calls:
\* the number of analyze_page calls never exceeds max_steps + 1, every step of a run
\* strictly decreases a natural-number measure of the work left, and a run that has
\* not ended can always take its next step (it never hangs).
C1_TerminatesWithinBudget ==
    /\ [](obsCalls <= max_steps + 1)
    /\ [](work_left \in Nat)
    /\ [][work_left' < work_left]_vars
    /\ [](pc # "done" => ENABLED Next)

\* C1 witness: a run that used its whole budget has ended after max_steps observations
C1_Witness ==
    cstate = "BudgetExhausted" /\ max_steps = MaxStepsBound /\ obsCalls = max_steps

C3_CompleteOnStepThree ==
    (cstate = "GoalComplete" /\ completeCalls = 3) =>
        /\ report.completed
        /\ report.final_status = "GoalComplete"
        /\ report.steps_taken = 3

\* C3 witness: a run that completed on its third check
C3_Witness == cstate = "GoalComplete" /\ completeCalls = 3 /\ obsCalls = 3

\* C4: when the step count reaches max_steps (no completion, no loop detected before),
\* the run ends with BudgetExhausted and completed = false, and does nothing else first.
C4_BudgetExhausted ==
    /\ (step_num = max_steps /\ pc # "done") => (pc = "top" /\ ~ENABLED Observe)
    /\ (step_num = max_steps /\ pc = "done") =>
          /\ cstate = "BudgetExhausted"
          /\ report.final_status = "BudgetExhausted"
          /\ ~report.completed
          /\ Len(execution_history) = max_steps

\* C4 witness: a run that spent its whole budget
C4_Witness ==
    cstate = "BudgetExhausted" /\ step_num = max_steps /\ statusCount = max_steps
       /\ max_steps >= 2

(* ---------------------- properties of the planner ---------------------- *)

\* the validation a decision handed to the executor has to pass
passes_validation(d, obs) ==
    /\ d.action \in {"click", "type", "scroll", "wait", "navigate", "finish"}
    /\ d.target_selector # None => d.target_selector \in (obs.inputs \cup obs.buttons)
    /\ d.confidence >= 0 /\ d.confidence <= 10

\* the decision service raised, or its reply is invalid or unsafe on this page
bad_reply(r, obs) ==
    \/ r.error
    \/ r.d.action \notin {"click", "type", "scroll", "wait", "navigate", "finish"}
    \/ r.d.target_selector # None /\ r.d.target_selector \notin (obs.inputs \cup obs.buttons)

\* C5: replan_next_action always returns a decision: on a DecisionError or an invalid or
\* unsafe reply of the decision service it returns the safe fallback (scroll), and on
\* every path (rule, service reply, fallback) the returned decision passes validation.
C5_PlannerReturnsValidDecision ==
    /\ pc = "plan" =>
         \A r \in ServiceReplies :
            LET d == replan_next_action(goal, observation, r) IN
            /\ passes_validation(d, observation)
            /\ (~rule_matched(goal, observation) /\ bad_reply(r, observation))
                   => (d.action = "scroll" /\ d = safe_fallback_decision)
    /\ pc \in {"exec", "attempt", "record", "status"} => passes_validation(decision, observation)

\* C5 witness: the decision service was asked on a page with elements and the planner
\* returned the fallback scroll (a valid scroll reply carries another confidence)
C5_Witness ==
    /\ pc = "exec" /\ llmCalls >= 1 /\ ~rule_matched(goal, observation)
    /\ observation.buttons # {}
    /\ decision = safe_fallback_decision

(* ---------------------- properties of the executor --------------------- *)

\* C6: one decision is dispatched at most 2 times: a second attempt is made only after
\* the first failed, and when the second fails too the result is failed, with no third.
C6_AtMostTwoAttempts ==
    /\ Len(attempt_log) <= 2
    /\ \A i \in 1..(Len(attempt_log) - 1) : attempt_log[i] = "failed"
    /\ pc = "attempt" => Len(attempt_log) <= 1
    /\ (Len(attempt_log) = 2 /\ attempt_log[2] = "failed")
          => (pc \in {"record", "status"} /\ result = "failed")

\* C6 witness: both attempts of a decision failed and the result is failed
C6_Witness ==
    Len(attempt_log) = 2 /\ attempt_log[2] = "failed" /\ result = "failed" /\ pc = "record"

\* C7: executing a finish decision gives the result completed (GoalReached) without a
\* dispatch attempt, and the page is as it was before the step.
C7_FinishTouchesNothing ==
    [][(pc = "exec" /\ decision.action = "finish" /\ pc' # pc)
          => /\ pc' = "record"
             /\ result' = "completed"
             /\ attempt_log' = <<>>
             /\ page' = page]_vars

\* C7 witness: a finish decision was executed
C7_Witness ==
    pc = "record" /\ decision.action = "finish" /\ result = "completed" /\ attempt_log = <<>>

(* ------------------ properties of errors and cancellation -------------- *)

\* C8: run_goal raises only when the first observation fails; a failed later observation
\* ends the run with an Aborted report; a DecisionError and failed or timed-out attempts
\* never raise: a run that did not raise ends with a report, its failed steps recorded.
C8_OnlyFirstObservationRaises ==
    /\ [](raised => /\ obsCalls = 1 /\ completeCalls = 0 /\ llmCalls = 0
                    /\ execution_history = <<>> /\ report = NoReport)
    /\ [][(~raised /\ raised') => (pc = "top" /\ obsCalls = 0)]_vars
    /\ [][(pc = "top" /\ pc' = "done" /\ obsCalls' = obsCalls + 1 /\ obsCalls >= 1)
             => /\ ~raised'
                /\ cstate' = "Aborted"
                /\ report'.final_status = "Aborted"
                /\ report'.execution_history = execution_history]_vars
    /\ []((pc = "done" /\ ~raised) => (cstate \in Terminal /\ report.final_status = cstate))
    /\ []((pc = "status" /\ result = "failed")
             => /\ execution_history[Len(execution_history)].status = "failed"
                /\ failure_history # <<>>)

\* C8 witness: an observation failed after a step whose action failed; the run aborted
C8_Witness ==
    /\ cstate = "Aborted" /\ ~cancelRequested /\ ~raised
    /\ obsCalls = Len(execution_history) + 1
    /\ Len(failure_history) >= 1

\* C9: a cancellation signal is acted on between steps only: the run ends with an Aborted
\* report holding the history so far, and an attempt in progress is never interrupted:
\* it ends by succeeding or failing.
C9_CancelBetweenSteps ==
    /\ [][(cstate = "Running" /\ cstate' = "Aborted" /\ cancelRequested)
             => /\ pc = "top"
                /\ attempt_log = <<>> /\ decision = NoDecision
                /\ Len(execution_history) = step_num
                /\ report'.final_status = "Aborted"
                /\ report'.execution_history = execution_history
                /\ execution_history' = execution_history]_vars
    /\ [][pc = "attempt"
             => (pc' = "attempt" \/ Len(attempt_log') = Len(attempt_log) + 1)]_vars

\* C9 witness: a run cancelled after it executed a step
C9_Witness ==
    /\ cstate = "Aborted" /\ cancelRequested
    /\ Len(execution_history) >= 1
    /\ report.execution_history = execution_history

(* --------------------- properties of loop detection -------------------- *)

\* the last n steps produced the same (action, target_selector) decision on the same URL,
\* and the page observed now still has that URL
repeated_at_end(h, obs, n) ==
    /\ Len(h) >= n
    /\ \A i \in (Len(h) - n + 1)..Len(h) :
          same_action(h[i], h[Len(h)]) /\ h[i].url = obs.url

\* C10: when the same (action, target_selector) decision was produced M times in a row
\* on an unchanged URL, _is_repetitive_loop answers true at the loop check, the run stops
\* there with LoopDetected, and no decision is ever planned or executed on top of M such
\* repetitions.
C10_RepetitionStopsAtNextCheck ==
    /\ []((pc = "guard" /\ repeated_at_end(execution_history, observation, threshold))
            => is_repetitive_loop(execution_history, observation, window, threshold))
    /\ [][(pc = "guard" /\ pc' # pc
              /\ repeated_at_end(execution_history, observation, threshold))
            => (cstate' = "LoopDetected" /\ pc' = "done"
                  /\ report'.final_status = "LoopDetected")]_vars
    /\ [](pc \in {"plan", "exec", "attempt", "record"}
            => ~repeated_at_end(execution_history, observation, threshold))

\* C10 witness: loop detection stopped a run whose last M steps repeated one decision
\* on one URL, with a window wider than M
C10_Witness ==
    /\ cstate = "LoopDetected"
    /\ repeated_at_end(execution_history, observation, threshold)
    /\ Len(execution_history) = threshold
    /\ window > threshold

(* ------------------- properties of repeated failures ------------------- *)

Min(a, b) == IF a <= b THEN a ELSE b

\* the last n steps all failed, on decisions with the same locator
same_locator_failures(h, n) ==
    /\ Len(h) >= n
    /\ \A i \in (Len(h) - n + 1)..Len(h) :
          /\ h[i].status = "failed"
          /\ h[i].decision.target_selector = h[Len(h)].decision.target_selector

\* the last n steps all failed, on the same decision
failed_streak(h, n) ==
    /\ same_locator_failures(h, n)
    /\ \A i \in (Len(h) - n + 1)..Len(h) : same_action(h[i], h[Len(h)])

\* C11: after three consecutive failed steps on decisions with the same locator, the
\* three failures are the last three records of the failure history and nothing was
\* raised; and a planner that keeps producing the same failing decision is stopped: the
\* streak never grows past the smaller of window and threshold, where the loop check
\* ends the run with LoopDetected.
C11_ThreeFailuresThenLoopDetected ==
    /\ [](same_locator_failures(execution_history, 3)
            => /\ ~raised
               /\ Len(failure_history) >= 3
               /\ \A i \in 0..2 :
                     failure_history[Len(failure_history) - i]
                       = FailureRecord(execution_history[Len(execution_history) - i].decision))
    /\ [][(pc = "record" /\ pc' # pc /\ result = "failed")
            => failure_history' = Append(failure_history, FailureRecord(decision))]_vars
    /\ [](pc \in {"plan", "exec", "attempt", "record"}
            => ~failed_streak(execution_history, Min(window, threshold)))
    /\ [][(pc = "guard" /\ pc' # pc
              /\ failed_streak(execution_history, Min(window, threshold)))
            => (cstate' = "LoopDetected" /\ report'.final_status = "LoopDetected"
                  /\ report'.execution_history = execution_history)]_vars

\* C11 witness: three failed steps on one decision, all in the failure history, and the
\* run stopped by loop detection
C11_Witness ==
    /\ cstate = "LoopDetected"
    /\ failed_streak(execution_history, 3)
    /\ Len(failure_history) = 3
    /\ execution_history[3].decision.target_selector # None

(* --------------------- properties of the rule engine -------------------- *)

\* the conditions of the three rules, in declaration order
blank_and_search(g, st) == st.url = "blank" /\ g = "search"
search_input_open(g, st) == st.inputs # {} /\ st.text # "q"
label_overlap(g, st) == \E b \in st.buttons : label_matches(g, b)

own_history(rec) ==
    /\ Len(rec.execution_history) = rec.step_num
    /\ \A i \in 1..Len(rec.execution_history) : rec.execution_history[i].step = i - 1
    /\ Len(rec.failure_history)
         = Cardinality({i \in 1..Len(rec.execution_history) :
                           rec.execution_history[i].status = "failed"})

message_sent == messages' # messages /\ messages' # <<>>

\* C14 as claimed: sending a message sets isLoading to true, and isLoading is true
\* exactly while a reply of the backend is awaited.
C14_LoadingWhileReplyAwaited ==
    /\ [][message_sent => isLoading']_vars
    /\ [][(isLoading /\ ~isLoading') => Len(messages') > Len(messages)]_vars

\* C15 as claimed: after a failed health check the panel shows Offline, and once a
\* health check has succeeded the panel no longer shows Offline.
C15_OfflineUntilNextSuccess ==
    /\ (lastSettled = "failed" /\ ~loading) => status_text(tp_error, health) = "Offline"
    /\ lastSettled = "ok" => status_text(tp_error, health) # "Offline"

\* C16: the fallback is rendered exactly while hasError is true, and while it is the
\* children do nothing; hasError becomes false again only by handleReset, which sets
\* hasError = false, error = null, errorInfo = null and has the children rendered (and
\* mounted) again.
C16_FallbackUntilTryAgain ==
    /\ [](boundary.hasError <=> render(boundary) = "fallback")
    /\ [](boundary.error # Null => boundary.hasError)
    /\ [][boundary.hasError
            => UNCHANGED <<value, isLoading, messages, mode, stepsTaken, lastAction, tp_vars>>
               \/ ~boundary'.hasError]_vars
    /\ [][(boundary.hasError /\ ~boundary'.hasError)
            => /\ boundary.error = ThrownError
               /\ boundary' = [hasError |-> FALSE, error |-> Null, errorInfo |-> Null]
               /\ render(boundary') = "children"
               /\ mounts' = mounts + 1]_vars

\* C16 witness: a child threw, Try Again was pressed, and the children are on the page
\* again with the boundary's state cleared
C16_Witness ==
    /\ mounts = 2
    /\ Mounted
    /\ boundary.error = Null /\ boundary.errorInfo = Null

\* C18 as claimed: every message sent from the page while mode M is selected issues a
\* POST /agent/message whose body carries mode M, and every such request carries a mode.
C18_PostCarriesSelectedMode ==
    /\ [][message_sent
            => /\ Len(requests') = Len(requests) + 1
               /\ "mode" \in DOMAIN requests'[Len(requests')].body
               /\ requests'[Len(requests')].body.mode = mode]_vars
    /\ [](\A i \in 1..Len(requests) :
            requests[i].path = "/agent/message" => "mode" \in DOMAIN requests[i].body)


(* ---------------------- properties of retryWithBackoff ------------------ *)

\* the calls of fn that failed, among the first n
failed_calls(n) == {i \in 1..n : ~fn_calls[i].ok}

\* C17: retryWithBackoff calls fn at most maxRetries + 1 times; no call follows a
\* success, and the promise resolves with the value of the first success; the k-th wait
\* is initialDelay doubled k - 1 times and one wait lies between two consecutive calls;
\* the promise rejects only after maxRetries + 1 failed calls, with the error of the
\* last of them.
C17_RetryWithBackoff ==
    /\ Len(fn_calls) <= maxRetries + 1
    /\ \A i \in 1..(Len(fn_calls) - 1) : ~fn_calls[i].ok
    /\ retry_pc = "resolved" <=> (fn_calls # <<>> /\ fn_calls[Len(fn_calls)].ok)
    /\ retry_pc = "resolved" => settled_with = fn_calls[Len(fn_calls)].with
    /\ Len(delays) > 0 => delays[1] = initialDelay
    /\ \A k \in 2..Len(delays) : delays[k] = 2 * delays[k - 1]
    /\ retry_pc = "call" => Len(delays) = Cardinality(failed_calls(Len(fn_calls)))
    /\ retry_pc = "rejected" => Len(delays) = maxRetries
    /\ retry_pc = "resolved" => Len(delays) = Len(fn_calls) - 1
    /\ retry_pc = "sleep" => Len(delays) = Len(fn_calls) - 1
    /\ retry_pc = "rejected"
         => /\ Len(fn_calls) = maxRetries + 1
            /\ failed_calls(Len(fn_calls)) = 1..Len(fn_calls)
            /\ settled_with = fn_calls[Len(fn_calls)].with
            /\ settled_with = lastError

\* C17 witness: with maxRetries = 3 the first three calls failed, waits of 1000, 2000
\* and 4000 ms were slept, and the fourth call succeeded
C17_Witness ==
    /\ maxRetries = 3 /\ initialDelay = 1000
    /\ Len(fn_calls) = 4
    /\ delays = <<1000, 2000, 4000>>
    /\ retry_pc = "resolved"
    /\ settled_with = "v2"


(* ------------------ properties of one iteration of a run ---------------- *)

\* the stages of an iteration in the order of run_goal
stage_after(p) ==
    CASE p = "top"     -> {"check", "done"}
      [] p = "check"   -> {"guard", "done"}
      [] p = "guard"   -> {"plan", "done"}
      [] p = "plan"    -> {"exec"}
      [] p = "exec"    -> {"attempt", "record"}
      [] p = "attempt" -> {"exec", "record"}
      [] p = "record"  -> {"status"}
      [] p = "status"  -> {"top"}
      [] OTHER         -> {}

\* C19: within an iteration the stages follow each other as observe, goal-complete
\* check, loop check, planning, execution: the page is observed only at the top, the
\* completion check reads the observation of this iteration, the planner is asked only
\* after the loop check and the page is acted on only after planning; when the goal is
\* found complete, or the run is found stuck, the run ends there with no decision made
\* and nothing executed or recorded in that iteration.
C19_StagesInOrder ==
    /\ [][pc' # pc => pc' \in stage_after(pc)]_vars
    /\ [][obsCalls' # obsCalls => pc = "top"]_vars
    /\ [][completeCalls' # completeCalls
            => pc = "check" /\ obsCalls = step_num + 1 /\ completeCalls = step_num]_vars
    /\ [][(llmCalls' # llmCalls \/ decision' \notin {decision, NoDecision})
            => pc = "plan" /\ completeCalls = step_num + 1]_vars
    /\ [][(page' # page \/ attempt_log' \notin {attempt_log, <<>>})
            => pc = "attempt" /\ decision # NoDecision]_vars
    /\ [][(cstate' = "GoalComplete" /\ cstate # "GoalComplete")
            => pc = "check" /\ pc' = "done"]_vars
    /\ [][(cstate' = "LoopDetected" /\ cstate # "LoopDetected")
            => pc = "guard" /\ pc' = "done"]_vars
    /\ [](cstate \in {"GoalComplete", "LoopDetected"}
            => /\ pc = "done"
               /\ decision = NoDecision /\ attempt_log = <<>>
               /\ Len(execution_history) = step_num)
    /\ [][pc = "done" => UNCHANGED run_vars]_vars

\* C19 witness: a first iteration went through all stages, and in the second the goal
\* was found complete right after the observation
C19_Witness ==
    /\ cstate = "GoalComplete"
    /\ step_num = 1
    /\ obsCalls = 2 /\ completeCalls = 2 /\ llmCalls = 1
    /\ Len(execution_history) = 1

\* C20: every decision, also one attempted twice, gets exactly one outcome and exactly
\* one entry of the history holding it; the entry is put at the end, and the entries
\* already there are never modified, reordered or removed.
C20_OneEntryPerDecision ==
    /\ [][execution_history' # execution_history
            => /\ pc = "record"
               /\ decision # NoDecision
               /\ result \in {"success", "failed", "completed"}
               /\ Len(execution_history') = Len(execution_history) + 1
               /\ SubSeq(execution_history', 1, Len(execution_history)) = execution_history
               /\ execution_history'[Len(execution_history')] =
                    [step |-> step_num, decision |-> decision, status |-> result,
                     url |-> observation.url]]_vars
    /\ [](Len(execution_history) = step_num + (IF pc = "status" THEN 1 ELSE 0))
    /\ [](\A i \in 1..Len(execution_history) : execution_history[i].step = i - 1)
    /\ [][(decision' # decision /\ decision # NoDecision) => pc = "status"]_vars
    /\ [][(result' # result /\ result # None) => pc = "status"]_vars
    /\ [](pc = "record" => result # None)

\* C20 witness: the second decision of a run was attempted twice and has its one entry,
\* behind the entry of the first decision
C20_Witness ==
    /\ pc = "status"
    /\ Len(attempt_log) = 2
    /\ Len(execution_history) = 2
    /\ execution_history[2].decision = decision
    /\ execution_history[1].step = 0


(* ---------------------- properties of the histories --------------------- *)

RECURSIVE failed_entries(_)
\* the failure records of the entries of h whose status is failed, in the order of h
failed_entries(h) ==
    IF h = <<>> THEN <<>>
    ELSE LET e == h[Len(h)]
             before == failed_entries(SubSeq(h, 1, Len(h) - 1))
         IN  IF e.status = "failed"
               THEN Append(before, [action |-> e.decision.action,
                                    selector |-> e.decision.target_selector])
               ELSE before

\* C21: at every point of a run the failure history is the subsequence, in order, of the
\* history entries whose status is failed; an entry with a failed status comes with one
\* new failure record, an entry with any other status with none.
C21_FailuresAreTheFailedEntries ==
    /\ [](failure_history = failed_entries(execution_history))
    /\ [][Len(execution_history') = Len(execution_history) + 1
            => Len(failure_history') =
                 Len(failure_history)
                   + (IF execution_history'[Len(execution_history')].status = "failed"
                        THEN 1 ELSE 0)]_vars
    /\ [][failure_history' # failure_history
            => Len(execution_history') = Len(execution_history) + 1]_vars

\* C21 witness: a failed step, then a finish step that was recorded as completed, then
\* another failed step: two failure records for three entries
C21_Witness ==
    /\ Len(execution_history) = 3
    /\ execution_history[1].status = "failed"
    /\ execution_history[2].status = "completed"
    /\ execution_history[3].status = "failed"
    /\ Len(failure_history) = 2


(* ----------------------- properties of the planner ---------------------- *)

\* a step in which the planner returns the decision of this iteration
planned == pc = "plan" /\ pc' = "exec"

\* C22: the decision service is called only in the planning of a step for which the
\* rule engine returned no match, and then once; when a rule matches, the service is not
\* called in that step and the decision is the validated decision of the rule.
C22_ServiceOnlyWithoutRuleMatch ==
    /\ [][llmCalls' # llmCalls
            => /\ planned
               /\ try_deterministic_decision(goal, observation) = NoDecision
               /\ llmCalls' = llmCalls + 1]_vars
    /\ [][(planned /\ try_deterministic_decision(goal, observation) # NoDecision)
            => /\ llmCalls' = llmCalls
               /\ decision' = validate_and_build_decision(
                                  try_deterministic_decision(goal, observation),
                                  observation)]_vars
    /\ [][(planned /\ try_deterministic_decision(goal, observation) = NoDecision)
            => llmCalls' = llmCalls + 1]_vars

\* C22 witness: the first step was decided by the search-input rule without a call of
\* the service, the second, with the text typed, by the service
C22_Witness ==
    /\ pc = "exec" /\ step_num = 1
    /\ llmCalls = 1
    /\ execution_history[1].decision = Decision("type", "in", "q", ConfMax)


pair_of(e) == <<e.decision.action, e.decision.target_selector>>

\* the last k steps of the history, when there are that many
last_steps(k) == (Len(execution_history) - k + 1)..Len(execution_history)

\* first heuristic: there are K steps, and over the last K of them and the page observed
\* now there is one URL only
location_unchanged ==
    /\ Len(execution_history) >= window
    /\ {execution_history[i].url : i \in last_steps(window)} = {observation.url}

\* second heuristic: within the last K steps there is a stretch on one URL in which one
\* (action, target_selector) pair occurs at least M times
pair_repeated ==
    LET w == {i \in last_steps(window) : i >= 1} IN
    \E i \in w, j \in w :
        /\ i <= j
        /\ Cardinality({execution_history[n].url : n \in i..j}) = 1
        /\ Cardinality({n \in i..j : pair_of(execution_history[n]) =
                                        pair_of(execution_history[i])}) >= threshold

C26_SendGuarded ==
    [][message_sent
         => /\ value \notin {"", " "}
            /\ ~isLoading
            /\ stepsTaken' = stepsTaken + 1
            /\ Len(messages') = Len(messages) + 2
            /\ SubSeq(messages', 1, Len(messages)) = messages
            /\ messages'[Len(messages) + 1] = [role |-> "user", content |-> "hi"]
            /\ messages'[Len(messages) + 2].role = "assistant"
            /\ value' = ""]_vars

\* C26 witness: the text " hi " was sent as "hi" and the input is empty again
C26_Witness ==
    /\ stepsTaken = 1
    /\ Len(messages) = 2
    /\ messages[1] = [role |-> "user", content |-> "hi"]
    /\ value = ""
    /\ ~isLoading


(* ---------------------- properties of fetchWithTimeout ------------------ *)

\* C27: the promise of fetchWithTimeout settles once at most and never again; when the
\* timer fired before the fetch settled the caller gets the error "Request timeout",
\* otherwise the response of the fetch or the error the fetch rejected with; once the
\* promise has settled the timer is not armed, and no abort is issued after that.
C27_SettlesOnce ==
    /\ [](Len(ft_settled) <= 1)
    /\ [][ft_settled' # ft_settled => ft_settled = <<>>]_vars
    /\ [](ft_settled # <<>>
            => /\ ft_timer # "armed"
               /\ ft_timer = "fired"
                    <=> ft_settled[1] =
                          [ok |-> FALSE,
                           with |-> [kind |-> "error", name |-> "Error",
                                     message |-> "Request timeout"]]
               /\ ft_timer = "cleared"
                    => /\ ft_settled[1].with = ft_fetch
                       /\ ft_settled[1].ok <=> ft_fetch \in Responses
                       /\ ft_fetch \in Responses \cup FetchErrors)
    /\ [][ft_aborts' # ft_aborts
            => ft_settled = <<>> /\ ft_aborts = 0 /\ ft_clock = ft_timeout]_vars
    /\ [](ft_clock > ft_timeout => ft_settled # <<>>)

\* C27 witness: the fetch answered before the timeout, and the time of the timeout has
\* passed without an abort
C27_Witness ==
    /\ ft_settled # <<>> /\ ft_settled[1].ok
    /\ ft_clock > ft_timeout
    /\ ft_timer = "cleared"
    /\ ft_aborts = 0


(* ------------------------ properties of the report ---------------------- *)

\* the run returned a report
reported == pc = "done" /\ ~raised

only_fallback_scrolls ==
    \A i \in 1..Len(execution_history) :
        /\ execution_history[i].decision =
             [action |-> "scroll", target_selector |-> None, input_text |-> None,
              confidence |-> 0]
        /\ execution_history[i].url = page.url

\* C29: when no rule matches and the decision service fails, the decision is the fallback
\* scroll; a run in which every step executed the fallback scroll on one unchanged URL
\* executes at most K steps: the loop check that follows the K-th stops it with
\* LoopDetected, so that with K smaller than max_steps it never ends with
\* BudgetExhausted.
C29_ScrollingRunStopsWithinWindow ==
    /\ []((pc = "plan" /\ try_deterministic_decision(goal, observation) = NoDecision)
            => replan_next_action(goal, observation, DecisionError).action = "scroll")
    /\ [](only_fallback_scrolls => Len(execution_history) <= window)
    /\ [][(pc = "guard" /\ pc' # pc /\ only_fallback_scrolls
              /\ Len(execution_history) >= window)
            => (cstate' = "LoopDetected" /\ report'.final_status = "LoopDetected")]_vars
    /\ []((only_fallback_scrolls /\ window < max_steps) => cstate # "BudgetExhausted")

\* C29 witness: no rule matched and the service was called and failed in each of K
\* steps; the run was stopped by the URL heuristic after K fallback scrolls, with budget
\* left
C29_Witness ==
    /\ cstate = "LoopDetected"
    /\ only_fallback_scrolls
    /\ Len(execution_history) = window
    /\ llmCalls = window
    /\ window < max_steps /\ window < threshold


(* -------------------- properties of the telemetry panel ----------------- *)

\* C30 as claimed: while the panel is on the page, loading is true whenever a health
\* check is in flight, and loading becomes false only when no check remains in flight.
C30_LoadingWhileInFlight ==
    /\ []((Mounted /\ inflight > 0) => loading)
    /\ [][(loading /\ ~loading' /\ Mounted') => inflight' = 0]_vars

====
